---- MODULE Spec2Model ----
(***************************************************************************)
(* MockProvider, the call-interception stub framework of the Apex mocking  *)
(* tutorial: a registry of configured return values keyed by a serialized  *)
(* method call, a recording flag, and a pending serialized call.           *)
(*                                                                         *)
(* Apex strings are sequences of one-character strings, so that the        *)
(* concatenation done by serializeMethodCall is computed, not assumed.     *)
(* A nullable field is a sequence of length at most one: <<>> is null and  *)
(* <<x>> is the value x.                                                   *)
(*                                                                         *)
(* The module also holds the code the other articles are about: Injector   *)
(* and TodoController (SpecFlow, SpecInj), the Users page with its addUser *)
(* server action (SpecUsers), the Parent and Child components (SpecLwc),   *)
(* the config service with the About page (SpecConfig), the TodoList       *)
(* component (SpecTodoList), and serializeMethodCall applied to pairs of   *)
(* calls (SpecSer). Each specification moves only its own variables.       *)
(***************************************************************************)
EXTENDS Integers, Sequences, FiniteSets, TLC

\* ------------------------------------------------------------------ bounds

\* Largest number of keys the registry may hold in a checked run.
MaxEntries == 2

\* Largest number of calls to TodoController.getTodos() in a checked run.
MaxCalls == 2

\* Largest number of users added through the form in a checked run.
MaxAdds == 3

\* Largest number of requests the config service answers in a checked run.
MaxFetches == 3

\* Longest list assigned to the todos property in a checked run.
MaxTodos == 3

\* Largest number of events the parent component receives in a checked run.
MaxEvents == 4

\* ------------------------------------------------------------- Apex values

\* The Apex null reference, in the domain of mock return values.
NULL == "null"

\* A null String or Boolean field, and a non-null one.
Null == <<>>
Some(x) == <<x>>

\* Mock return values: null, and two distinct object references.
V1 == "mockTodoList"
V2 == "true"
Values == {NULL, V1, V2}

\* An argument of a stubbed call: a String or an Integer.
StrArg(chars) == [t |-> "String", v |-> chars]
IntArg(n) == [t |-> "Integer", v |-> n]

Digits == <<"0", "1", "2", "3", "4", "5", "6", "7", "8", "9">>

\* String.valueOf(Integer), for n >= 0.
RECURSIVE IntegerText(_)
IntegerText(n) ==
    IF n < 10 THEN <<Digits[n + 1]>>
    ELSE IntegerText(n \div 10) \o <<Digits[(n % 10) + 1]>>

\* String.valueOf(Object): the text String.join gives each element.
valueOf(arg) == IF arg.t = "Integer" THEN IntegerText(arg.v) ELSE arg.v

\* String.join(listOfArgs, separator).
RECURSIVE join(_, _)
join(listOfArgs, separator) ==
    IF listOfArgs = <<>> THEN <<>>
    ELSE IF Len(listOfArgs) = 1 THEN valueOf(Head(listOfArgs))
    ELSE valueOf(Head(listOfArgs)) \o separator \o join(Tail(listOfArgs), separator)

\* serializeMethodCall that leaves the arguments out of the signature.
serializeMethodCallNameOnly(stubbedMethodName, listOfArgs) ==
    stubbedMethodName \o <<"(">> \o <<")">>

\* MockProvider.serializeMethodCall.
serializeMethodCall(stubbedMethodName, listOfArgs) ==
    stubbedMethodName \o <<"(">> \o join(listOfArgs, <<",">>) \o <<")">>

\* ---------------------------------------------------------------- Map API

\* Map.put that adds an entry without replacing the one under the same key.
MapPutKeepOld(map, key, value) == map \cup {[key |-> key, value |-> value]}

\* Map.put that stores nothing.
MapPutNothing(map, key, value) == map

\* Map.put that replaces the whole map by the new entry.
MapPutClear(map, key, value) == {[key |-> key, value |-> value]}

\* Map<String, Object>.put: the map is a set of entries, one per key.
MapPut(map, key, value) ==
    {e \in map : e.key # key} \cup {[key |-> key, value |-> value]}

MapKeys(map) == {e.key : e \in map}

\* Map.get that finds nothing.
MapGetAbsent(map, key) == NULL

\* Map<String, Object>.get: the value under key, null when there is none.
MapGet(map, key) ==
    IF \E e \in map : e.key = key
    THEN (CHOOSE e \in map : e.key = key).value
    ELSE NULL

\* ------------------------------------------------------------------ inputs

Call(name, args) == [name |-> name, args |-> args]

\* No call: the method name is empty.
NoCall == Call(<<>>, <<>>)
NoStub == "none"

getTodosName == <<"g", "e", "t", "T", "o", "d", "o", "s">>
addTodoName == <<"a", "d", "d", "T", "o", "d", "o">>
milk == <<"m", "i", "l", "k">>
eggs == <<"e", "g", "g", "s">>

GetTodos == Call(getTodosName, <<>>)
AddTodoMilk == Call(addTodoName, <<StrArg(milk)>>)
AddTodoEggs == Call(addTodoName, <<StrArg(eggs)>>)

\* The calls of the TodoService scenario.
TodoCalls == {GetTodos, AddTodoMilk, AddTodoEggs}

mName == <<"m">>

\* Calls that probe the serializer: no argument and one empty argument,
\* two arguments and the same two swapped (plain, with a ',' inside, and
\* with equal text forms of different type).
ZeroArgCall == Call(mName, <<>>)
EmptyArgCall == Call(mName, <<StrArg(<<>>)>>)

SignatureCalls == {
    ZeroArgCall,
    EmptyArgCall,
    Call(mName, <<IntArg(1), IntArg(2)>>),
    Call(mName, <<IntArg(2), IntArg(1)>>),
    Call(mName, <<StrArg(<<"a", ",", "a">>), StrArg(<<"a">>)>>),
    Call(mName, <<StrArg(<<"a">>), StrArg(<<"a", ",", "a">>)>>),
    Call(mName, <<IntArg(1), StrArg(<<"1">>)>>),
    Call(mName, <<StrArg(<<"1">>), IntArg(1)>>) }

\* Stubs created with createMock, all on the one MockProvider.
mockTodoService == "mockTodoService"
otherTodoService == "otherTodoService"
mockInjectorStub == "mockInjector"

\* Real objects: new Injector(), Type.forName('TodoService').newInstance(),
\* the rows the real TodoService.getTodos() selects, and the row the real
\* TodoService.addTodo inserts.
realInjector == "Injector"
realTodoService == "TodoService"
todoRows == "todoRows"
insertedTodo == "Todo__c"

instantiateName == <<"i", "n", "s", "t", "a", "n", "t", "i", "a", "t", "e">>
TodoServiceClassName == <<"T", "o", "d", "o", "S", "e", "r", "v", "i", "c", "e">>
Instantiate == Call(instantiateName, <<StrArg(TodoServiceClassName)>>)

sig(call) == serializeMethodCall(call.name, call.args)

\* Calls whose signatures are compared pairwise: the serializer probes, an
\* Integer and a String of equal text, and names and arguments with '(' or
\* ')' inside.
InjectivityCalls ==
    SignatureCalls \cup {
        Call(mName, <<IntArg(1)>>),
        Call(mName, <<StrArg(<<"1">>)>>),
        Call(mName, <<StrArg(<<"(", "a">>)>>),
        Call(<<"m", "(">>, <<StrArg(<<"a">>)>>),
        Call(mName, <<StrArg(<<"a", ")">>)>>),
        Call(<<"m", "m">>, <<IntArg(1), IntArg(2)>>) }

\* --------------------------------------------------------------- the state

VARIABLES
    mockReturnValues,       \* MockProvider.mockReturnValues
    isSettingMockValue,     \* MockProvider.isSettingMockValue: Null, Some(TRUE), Some(FALSE)
    serializedMethodCall,   \* MockProvider.serializedMethodCall: Null or Some(signature)
    last,                   \* the most recent operation and its outcome
    lastCommit,             \* the most recent mockReturnValue
    pendingCall,            \* the most recent call intercepted while recording, and
                            \* the one intercepted before it in the same session
    intercepted,            \* whether a call was intercepted while recording since setMock()
    configured,             \* the calls a mockReturnValue has stored a value for,
                            \* each with the stub it was recorded through
    injector,               \* Injector.injector: Null or Some(realInjector)
    mockInjector,           \* Injector.mockInjector: Null or Some(stub)
    self,                   \* TodoController.self: Null or Some([todoService |-> ...])
    calls,                  \* how many times TodoController.getTodos() was called
    controllerOut,          \* the outcome of the latest TodoController.getTodos()
    created,                \* the real objects created so far
    newInjectors,           \* how many times new Injector() ran
    gotInjector,            \* the latest getInjector(): what it returned, and the
                            \* mockInjector it saw
    dataUsers,              \* the server's users array (@/data/users)
    users,                  \* the users prop the page last rendered into Users
    optimistic,             \* useOptimistic's updates not yet retired, oldest first
    payload,                \* re-fetched page data received and not yet rendered
    toasts,                 \* how many error toasts were shown
    clock,                  \* how many users were added through the form
    failed,                 \* the ids of the optimistic users whose addUser failed
    overlap,                \* whether a user was added while an action was pending
    greeting,               \* Parent.greeting: Null or Some(detail)
    childLabel,             \* Parent.childLabel
    label,                  \* Child.label
    dispatched,             \* the events Child.handleClick dispatched
    received,               \* the details of the showgreeting events the parent got
    clicks,                 \* how many times the child's button was clicked
    left,                   \* a call handed to serializeMethodCall
    right,                  \* another call handed to serializeMethodCall
    leftSig,                \* Null, or Some(signature of left)
    rightSig,               \* Null, or Some(signature of right)
    host,                   \* the host header of the latest About request: Null or Some
    subdomain,              \* the subdomain getConfig computed for that request
    page,                   \* what the About page showed: Null or Some(text)
    counter,                \* the config service's counter
    cache,                  \* the data cache of fetch: [url, body] entries
    todos,                  \* TodoList._todos
    priorityFilter,         \* TodoList.priorityFilter
    filteredTodos,          \* TodoList.filteredTodos
    checked                 \* the checked state of the checkbox

providerVars == <<mockReturnValues, isSettingMockValue, serializedMethodCall,
                  last, lastCommit, pendingCall, intercepted, configured>>

controllerVars == <<injector, mockInjector, self, calls, controllerOut, created,
                    newInjectors, gotInjector>>

usersVars == <<dataUsers, users, optimistic, payload, toasts, clock, failed, overlap>>

lwcVars == <<greeting, childLabel, label, dispatched, received, clicks>>

serVars == <<left, right, leftSig, rightSig>>

configVars == <<host, subdomain, page, counter, cache>>

todoListVars == <<todos, priorityFilter, filteredTodos, checked>>

restVars == <<serVars, configVars, todoListVars>>

vars == <<providerVars, controllerVars, usersVars, lwcVars, restVars>>

Return(value) == [kind |-> "return", value |-> value]
Throw(exception) == [kind |-> "throw", value |-> exception]

NoOp == [op |-> "none", stub |-> NoStub, call |-> NoCall, prev |-> NoCall,
         out |-> Return(NULL)]

NoPending == [call |-> NoCall, stub |-> NoStub, prev |-> NoCall]

NoCommit == [call |-> NoCall, stub |-> NoStub, val |-> NULL, was |-> "absent"]

\* A user row.
User(id, name, email) == [id |-> id, name |-> name, email |-> email]

\* What the form can submit.
People == {[name |-> "ann", email |-> "ann@example.com"],
           [name |-> "bob", email |-> "bob@example.com"]}

\* The users array the server starts with: empty, or one row.
InitialData == {<<>>, <<User(1, "ann", "ann@example.com")>>}

\* The page as first rendered: Home fetched the users and passed them to Users.
InitUsers(data) ==
    /\ dataUsers = data
    /\ users = data
    /\ optimistic = <<>>
    /\ payload = Null
    /\ toasts = 0
    /\ clock = 0
    /\ failed = {}
    /\ overlap = FALSE

\* Parent.ChildLabel, the label the child test sets, and the detail of the event.
ChildLabel == "Click To Show A Greeting!"
LABEL == "Show a Greeting"
HelloWorld == "Hello World!"

\* Event details and event types a test can dispatch on the child element.
Details == {HelloWorld, "Hi"}
showgreeting == "showgreeting"
EventTypes == {showgreeting, "other"}

\* The parent as created, rendering the child with label={childLabel}.
InitLwc ==
    /\ greeting = Null
    /\ childLabel = ChildLabel
    /\ label = ChildLabel
    /\ dispatched = <<>>
    /\ received = <<>>
    /\ clicks = 0

\* new MockProvider(): the map is created, the two other fields are left null.
InitProvider ==
    /\ mockReturnValues = {}
    /\ isSettingMockValue = Null
    /\ serializedMethodCall = Null
    /\ last = NoOp
    /\ lastCommit = NoCommit
    /\ pendingCall = NoPending
    /\ intercepted = FALSE
    /\ configured = {}

\* Injector and TodoController before the class is first referenced.
InitController ==
    /\ injector = Null
    /\ mockInjector = Null
    /\ self = Null
    /\ calls = 0
    /\ controllerOut = Return(NULL)
    /\ created = {}
    /\ newInjectors = 0
    /\ gotInjector = Null

\* Two calls about to be serialized.
InitSer(l, r) ==
    /\ left = l
    /\ right = r
    /\ leftSig = Null
    /\ rightSig = Null

\* The config service just started and no page requested yet.
InitConfig ==
    /\ host = Null
    /\ subdomain = <<>>
    /\ page = Null
    /\ counter = 0
    /\ cache = {}

\* TodoList as constructed.
InitTodoList ==
    /\ todos = <<>>
    /\ priorityFilter = FALSE
    /\ filteredTodos = <<>>
    /\ checked = FALSE

Init ==
    /\ InitProvider
    /\ InitController
    /\ InitUsers(<<>>)
    /\ InitLwc
    /\ InitSer(NoCall, NoCall)
    /\ InitConfig
    /\ InitTodoList

\* ------------------------------------------------------------- operations

\* MockProvider.startSettingMockValue.
startSettingMockValue(flag) == Some(TRUE)

\* stopSettingMockValue that leaves the flag as it is.
stopSettingMockValueSkip(flag) == flag

\* MockProvider.stopSettingMockValue.
stopSettingMockValue(flag) == Some(FALSE)

\* setMock that also starts from an empty registry.
SetMockResets ==
    /\ isSettingMockValue' = startSettingMockValue(isSettingMockValue)
    /\ mockReturnValues' = {}
    /\ intercepted' = FALSE
    /\ last' = [NoOp EXCEPT !.op = "setMock"]
    /\ UNCHANGED <<serializedMethodCall, lastCommit, pendingCall, configured>>

\* MockProvider.setMock().
SetMock ==
    /\ isSettingMockValue' = startSettingMockValue(isSettingMockValue)
    /\ intercepted' = FALSE
    /\ last' = [NoOp EXCEPT !.op = "setMock"]
    /\ UNCHANGED <<mockReturnValues, serializedMethodCall, lastCommit,
                   pendingCall, configured>>

\* mockReturnValue that stores its first parameter.
MockReturnValueStoresFirst(returnValue, mockReturnValue) ==
    /\ Cardinality(MapKeys(mockReturnValues) \cup {serializedMethodCall}) <= MaxEntries
    /\ mockReturnValues' = MapPut(mockReturnValues, serializedMethodCall, returnValue)
    /\ serializedMethodCall' = Null
    /\ isSettingMockValue' = stopSettingMockValue(isSettingMockValue)
    /\ last' = [op |-> "mockReturnValue", stub |-> pendingCall.stub,
                call |-> pendingCall.call, prev |-> pendingCall.prev,
                out |-> Return(NULL)]
    /\ lastCommit' = [call |-> pendingCall.call, stub |-> pendingCall.stub,
                      val |-> mockReturnValue,
                      was |-> IF serializedMethodCall \in MapKeys(mockReturnValues)
                              THEN MapGet(mockReturnValues, serializedMethodCall)
                              ELSE "absent"]
    /\ configured' = IF pendingCall.call = NoCall THEN configured
                     ELSE configured \cup {[call |-> pendingCall.call,
                                            stub |-> pendingCall.stub]}
    /\ pendingCall' = NoPending
    /\ intercepted' = FALSE

\* MockProvider.mockReturnValue(returnValue, mockReturnValue).
MockReturnValue(returnValue, mockReturnValue) ==
    /\ Cardinality(MapKeys(mockReturnValues) \cup {serializedMethodCall}) <= MaxEntries
    /\ mockReturnValues' = MapPut(mockReturnValues, serializedMethodCall, mockReturnValue)
    /\ serializedMethodCall' = Null
    /\ isSettingMockValue' = stopSettingMockValue(isSettingMockValue)
    /\ last' = [op |-> "mockReturnValue", stub |-> pendingCall.stub,
                call |-> pendingCall.call, prev |-> pendingCall.prev,
                out |-> Return(NULL)]
    /\ lastCommit' = [call |-> pendingCall.call, stub |-> pendingCall.stub,
                      val |-> mockReturnValue,
                      was |-> IF serializedMethodCall \in MapKeys(mockReturnValues)
                              THEN MapGet(mockReturnValues, serializedMethodCall)
                              ELSE "absent"]
    /\ configured' = IF pendingCall.call = NoCall THEN configured
                     ELSE configured \cup {[call |-> pendingCall.call,
                                            stub |-> pendingCall.stub]}
    /\ pendingCall' = NoPending
    /\ intercepted' = FALSE

\* The recording branch keeping the first call of a session instead of the last.
recordFirst(pending, signature) == IF pending = Null THEN Some(signature) ELSE pending

\* handleMethodCall, recording branch: this.serializedMethodCall = serializedMethodCall.
record(pending, signature) == Some(signature)

\* The outcome of handleMethodCall in the present state: what it returns or throws.
\* if (isSettingMockValue) de-references a null Boolean when the flag was never set.
handleMethodCallOutcome(stubbedObject, stubbedMethodName, listOfArgs) ==
    IF isSettingMockValue = Null THEN Throw("NullPointerException")
    ELSE IF isSettingMockValue = Some(TRUE) THEN Return(NULL)
    ELSE Return(MapGet(mockReturnValues,
                       Some(serializeMethodCall(stubbedMethodName, listOfArgs))))

\* handleMethodCall with the assignment to this.serializedMethodCall moved out
\* of the recording branch: the signature is stored on every call.
HandleMethodCallStoresAlways(stubbedObject, stubbedMethodName, listOfArgs) ==
    /\ last' = [op |-> "call", stub |-> stubbedObject,
                call |-> Call(stubbedMethodName, listOfArgs), prev |-> NoCall,
                out |-> handleMethodCallOutcome(stubbedObject, stubbedMethodName, listOfArgs)]
    /\ serializedMethodCall' =
           record(serializedMethodCall, serializeMethodCall(stubbedMethodName, listOfArgs))
    /\ IF isSettingMockValue = Some(TRUE)
       THEN /\ pendingCall' = [call |-> Call(stubbedMethodName, listOfArgs),
                               stub |-> stubbedObject,
                               prev |-> IF intercepted THEN pendingCall.call
                                        ELSE NoCall]
            /\ intercepted' = TRUE
       ELSE UNCHANGED <<pendingCall, intercepted>>
    /\ UNCHANGED <<mockReturnValues, isSettingMockValue, lastCommit, configured>>

\* MockProvider.handleMethodCall(stubbedObject, stubbedMethodName, ..., listOfArgs).
HandleMethodCall(stubbedObject, stubbedMethodName, listOfArgs) ==
    /\ last' = [op |-> "call", stub |-> stubbedObject,
                call |-> Call(stubbedMethodName, listOfArgs), prev |-> NoCall,
                out |-> handleMethodCallOutcome(stubbedObject, stubbedMethodName, listOfArgs)]
    /\ IF isSettingMockValue = Some(TRUE)
       THEN /\ serializedMethodCall' =
                   record(serializedMethodCall,
                          serializeMethodCall(stubbedMethodName, listOfArgs))
            /\ pendingCall' = [call |-> Call(stubbedMethodName, listOfArgs),
                               stub |-> stubbedObject,
                               prev |-> IF intercepted THEN pendingCall.call
                                        ELSE NoCall]
            /\ intercepted' = TRUE
       ELSE UNCHANGED <<serializedMethodCall, pendingCall, intercepted>>
    /\ UNCHANGED <<mockReturnValues, isSettingMockValue, lastCommit, configured>>

\* ------------------------------------------- Injector and TodoController

\* The Apex type of a value.
typeOf(value) ==
    CASE value \in {mockTodoService, otherTodoService, realTodoService} -> "TodoService"
      [] value \in {mockInjectorStub, realInjector} -> "Injector"
      [] value \in {V1, todoRows} -> "List<Todo__c>"
      [] OTHER -> "Object"

\* (type) value: null casts to every type, any other value only to its own.
Cast(type, value) ==
    IF value = NULL \/ typeOf(value) = type
    THEN Return(value)
    ELSE Throw("TypeException")

\* getInjector that never looks at mockInjector.
getInjectorIgnoringMock(mockInj, inj) ==
    [ref |-> realInjector, injector |-> Some(realInjector), isNew |-> inj = Null]

\* getInjector that creates a new Injector whenever there is no mock.
getInjectorAlwaysNew(mockInj, inj) ==
    IF mockInj # Null
    THEN [ref |-> mockInj[1], injector |-> inj, isNew |-> FALSE]
    ELSE [ref |-> realInjector, injector |-> Some(realInjector), isNew |-> TRUE]

\* Injector.getInjector(): the injector returned, the static field afterwards,
\* and whether new Injector() ran.
getInjector(mockInj, inj) ==
    IF mockInj # Null
    THEN [ref |-> mockInj[1], injector |-> inj, isNew |-> FALSE]
    ELSE [ref |-> realInjector, injector |-> Some(realInjector), isNew |-> inj = Null]

\* ref.instantiate(className): intercepted on the stub, newInstance() on a real
\* Injector.
instantiate(ref, className) ==
    IF ref = mockInjectorStub
    THEN handleMethodCallOutcome(ref, instantiateName, <<StrArg(className)>>)
    ELSE Return(realTodoService)

\* new TodoController(): the todoService it binds (or the exception), the
\* injector it used, the stub calls it made and the real objects it created.
NewTodoController ==
    LET got == getInjector(mockInjector, injector)
        made == instantiate(got.ref, TodoServiceClassName)
    IN  [got |-> got,
         out |-> IF made.kind = "throw" THEN made ELSE Cast("TodoService", made.value),
         stubCalls |-> IF got.ref = mockInjectorStub
                       THEN <<[stub |-> mockInjectorStub, call |-> Instantiate]>>
                       ELSE <<>>,
         created |-> (IF got.isNew THEN {realInjector} ELSE {})
                        \cup (IF got.ref = realInjector THEN {realTodoService} ELSE {})]

\* service.getTodos() on the object the controller holds.
serviceGetTodos(service) ==
    IF service = NULL THEN Throw("NullPointerException")
    ELSE IF service = realTodoService THEN Return(todoRows)
    ELSE LET out == handleMethodCallOutcome(service, getTodosName, <<>>)
         IN  IF out.kind = "throw" THEN out ELSE Cast("List<Todo__c>", out.value)

\* service.addTodo(name) on the object the controller holds; the method is void.
serviceAddTodo(service, listOfArgs) ==
    IF service = NULL THEN Throw("NullPointerException")
    ELSE IF service = realTodoService THEN Return(NULL)
    ELSE LET out == handleMethodCallOutcome(service, addTodoName, listOfArgs)
         IN  IF out.kind = "throw" THEN out ELSE Return(NULL)

\* The controller method `call` delegated to the service.
serviceCall(service, call) ==
    IF call.name = getTodosName
    THEN serviceGetTodos(service)
    ELSE serviceAddTodo(service, call.args)

\* What the stub calls made inside one controller call leave in the provider:
\* handleMethodCall for each of them, in order.
Intercepted(stubCalls, out) ==
    /\ last' = [op |-> "TodoController",
                stub |-> IF stubCalls = <<>> THEN NoStub ELSE stubCalls[Len(stubCalls)].stub,
                call |-> IF stubCalls = <<>> THEN NoCall ELSE stubCalls[Len(stubCalls)].call,
                prev |-> NoCall,
                out |-> out]
    /\ IF stubCalls # <<>> /\ isSettingMockValue = Some(TRUE)
       THEN LET c == stubCalls[Len(stubCalls)]
            IN  /\ serializedMethodCall' = record(serializedMethodCall, sig(c.call))
                /\ pendingCall' = [call |-> c.call, stub |-> c.stub,
                                   prev |-> IF Len(stubCalls) > 1
                                            THEN stubCalls[Len(stubCalls) - 1].call
                                            ELSE IF intercepted THEN pendingCall.call
                                            ELSE NoCall]
                /\ intercepted' = TRUE
       ELSE UNCHANGED <<serializedMethodCall, pendingCall, intercepted>>
    /\ UNCHANGED <<mockReturnValues, isSettingMockValue, lastCommit, configured>>

\* The test's assignment Injector.mockInjector = mockInjector.
AssignMockInjector ==
    /\ mockInjector' = Some(mockInjectorStub)
    /\ UNCHANGED <<providerVars, injector, self, calls, controllerOut, created,
                   newInjectors, gotInjector>>

\* A test's assignment Injector.mockInjector = null.
ClearMockInjector ==
    /\ mockInjector' = Null
    /\ UNCHANGED <<providerVars, injector, self, calls, controllerOut, created,
                   newInjectors, gotInjector>>

\* What getInjector() returned, with the mockInjector it saw.
Got(got) == Some([ref |-> got.ref, mockWas |-> mockInjector])

\* Injector.getInjector() called from anywhere.
GetInjector ==
    LET got == getInjector(mockInjector, injector)
    IN  /\ injector' = got.injector
        /\ newInjectors' = newInjectors + (IF got.isNew THEN 1 ELSE 0)
        /\ created' = created \cup (IF got.isNew THEN {realInjector} ELSE {})
        /\ gotInjector' = Got(got)
        /\ UNCHANGED <<providerVars, mockInjector, self, calls, controllerOut>>

\* A static initializer that runs on every reference to the class.
needsInitAlways(n) == TRUE

\* The static initializer of TodoController runs on the first reference to the
\* class: before the first call of one of its methods.
needsInit(n) == n = 0

\* TodoController.getTodos() or TodoController.addTodo(name). The first
\* reference to the class runs self = new TodoController().
ControllerCall(call) ==
    /\ calls < MaxCalls
    /\ LET init == needsInit(calls)
           ctor == NewTodoController
           selfAfter == IF ~init THEN self
                        ELSE IF ctor.out.kind = "return"
                             THEN Some([todoService |-> ctor.out.value])
                             ELSE Null
           reached == selfAfter # Null
           out == IF init /\ ctor.out.kind = "throw" THEN ctor.out
                  ELSE IF ~reached THEN Throw("NullPointerException")
                  ELSE serviceCall(selfAfter[1].todoService, call)
           stubCalls ==
               (IF init THEN ctor.stubCalls ELSE <<>>)
                   \o (IF reached /\ selfAfter[1].todoService
                                        \in {mockTodoService, otherTodoService}
                       THEN <<[stub |-> selfAfter[1].todoService, call |-> call]>>
                       ELSE <<>>)
           inserted == IF reached /\ selfAfter[1].todoService = realTodoService
                          /\ call.name = addTodoName
                       THEN {insertedTodo}
                       ELSE {}
       IN  /\ self' = selfAfter
           /\ injector' = IF init THEN ctor.got.injector ELSE injector
           /\ newInjectors' = newInjectors + (IF init /\ ctor.got.isNew THEN 1 ELSE 0)
           /\ gotInjector' = IF init THEN Got(ctor.got) ELSE gotInjector
           /\ created' = created \cup (IF init THEN ctor.created ELSE {}) \cup inserted
           /\ calls' = calls + 1
           /\ controllerOut' = out
           /\ Intercepted(stubCalls, out)
           /\ UNCHANGED mockInjector

\* TodoController.getTodos().
ControllerGetTodos == ControllerCall(GetTodos)

\* TodoController.addTodo(name).
ControllerAddTodo(name) == ControllerCall(Call(addTodoName, <<StrArg(name)>>))

\* --------------------------------------------------- Users (Next.js page)

\* Date.now() at the tick-th submission.
DateNow(tick) == 1000 + tick

\* The reducer handed to useOptimistic.
reducer(state, newUser) == Append(state, newUser)

\* useOptimistic(users, reducer): the passthrough value with every update that
\* is not yet retired applied in order.
RECURSIVE useOptimistic(_, _)
useOptimistic(passthrough, updates) ==
    IF updates = <<>> THEN passthrough
    ELSE useOptimistic(reducer(passthrough, Head(updates).user), Tail(updates))

\* What UsersTable shows.
optimisticUsers == useOptimistic(users, optimistic)

IsPending(update) == update.state = "pending"

\* An addUser that never re-fetches the page.
revalidatePathSkipped(data) == Null

\* revalidatePath('/'): the page is re-fetched with the users array as it is.
revalidatePath(data) == Some(data)

\* Users.handleAddUser(name, email), up to the await.
HandleAddUser(name, email) ==
    /\ clock < MaxAdds
    /\ optimistic' = Append(optimistic,
                            [user |-> User(DateNow(clock), name, email),
                             state |-> "pending"])
    /\ clock' = clock + 1
    /\ overlap' = (overlap \/ \E i \in 1..Len(optimistic) : IsPending(optimistic[i]))
    /\ UNCHANGED <<dataUsers, users, payload, toasts, failed>>

\* The transition of update i finishes with `latest` the newest page data at
\* hand. React retires the finished updates and renders the new props in one
\* commit, at once or, while other actions are still pending, with them later.
Settle(i, latest, hold) ==
    LET marked == [optimistic EXCEPT ![i].state = "settled"]
        stillPending == \E j \in 1..Len(marked) : IsPending(marked[j])
    IN  IF hold /\ stillPending
        THEN /\ optimistic' = marked
             /\ payload' = latest
             /\ users' = users
        ELSE /\ optimistic' = SelectSeq(marked, IsPending)
             /\ payload' = Null
             /\ users' = IF latest # Null THEN latest[1] ELSE users

\* The addUser server action of update i runs to its end, and the awaiting
\* transition continues: ok is the outcome of Math.random() < 0.5.
AddUser(i, ok, hold) ==
    /\ i \in 1..Len(optimistic)
    /\ IsPending(optimistic[i])
    /\ LET u == optimistic[i].user
           pushed == Append(dataUsers, User(Len(dataUsers) + 1, u.name, u.email))
           incoming == revalidatePath(pushed)
       IN  IF ok
           THEN /\ dataUsers' = pushed
                /\ Settle(i, IF incoming # Null THEN incoming ELSE payload, hold)
                /\ UNCHANGED <<toasts, failed>>
           ELSE /\ toasts' = toasts + 1
                /\ failed' = failed \cup {u.id}
                /\ Settle(i, payload, hold)
                /\ UNCHANGED dataUsers
    /\ UNCHANGED <<clock, overlap>>

\* ------------------------------------------------ Parent and Child (LWC)

ShowGreetingEvent(detail) == [type |-> showgreeting, detail |-> detail]

\* handleShowGreeting that keeps a greeting once it is set.
handleShowGreetingOnce(current, event) ==
    IF current = Null THEN Some(event.detail) ELSE current

\* Parent.handleShowGreeting(event): the new value of this.greeting.
handleShowGreeting(current, event) == Some(event.detail)

\* handleClick that dispatches its event twice.
handleClickTwice == <<ShowGreetingEvent(HelloWorld), ShowGreetingEvent(HelloWorld)>>

\* Child.handleClick(): the events it dispatches.
handleClick == <<ShowGreetingEvent(HelloWorld)>>

\* The parent's listener run on each event of a list, in order.
RECURSIVE Deliver(_, _)
Deliver(current, events) ==
    IF events = <<>> THEN current
    ELSE Deliver(handleShowGreeting(current, Head(events)), Tail(events))

\* A click on the child's button: handleClick runs, and the parent's
\* onshowgreeting listener handles each event it dispatches.
Click ==
    /\ Len(received) < MaxEvents
    /\ clicks' = clicks + 1
    /\ dispatched' = dispatched \o handleClick
    /\ received' = received \o [k \in 1..Len(handleClick) |-> handleClick[k].detail]
    /\ greeting' = Deliver(greeting, handleClick)
    /\ UNCHANGED <<childLabel, label>>

\* A test dispatches an event on the child element: dispatchEvent(new
\* CustomEvent(type, {detail})). Only showgreeting has a listener.
DispatchEvent(type, detail) ==
    /\ Len(received) < MaxEvents
    /\ IF type = showgreeting
       THEN /\ greeting' = handleShowGreeting(greeting, [type |-> type, detail |-> detail])
            /\ received' = Append(received, detail)
       ELSE UNCHANGED <<greeting, received>>
    /\ UNCHANGED <<childLabel, label, dispatched, clicks>>

\* A test sets the child's public property: element.label = value.
SetLabel(value) ==
    /\ label' = value
    /\ UNCHANGED <<greeting, childLabel, dispatched, received, clicks>>

\* ------------------------------------------------ serializer, on its own

\* serializeMethodCall applied to the left call.
SerializeLeft ==
    /\ leftSig = Null
    /\ leftSig' = Some(serializeMethodCall(left.name, left.args))
    /\ UNCHANGED <<left, right, rightSig>>

\* serializeMethodCall applied to the right call.
SerializeRight ==
    /\ rightSig = Null
    /\ rightSig' = Some(serializeMethodCall(right.name, right.args))
    /\ UNCHANGED <<left, right, leftSig>>

\* ------------------------------------------- config service and About page

demo3 == <<"d", "e", "m", "o", "3">>
defaultSubdomain == <<"d", "e", "f", "a", "u", "l", "t">>

\* Host headers of the requests: none, empty, and hosts with and without a dot.
Hosts == {
    Null,
    Some(<<>>),
    Some(<<"d", "e", "m", "o", "3", ".", "a", "c", "m", "e", ".", "i", "o">>),
    Some(<<"d", "e", "m", "o", "1", ".", "a", "c", "m", "e", ".", "i", "o">>),
    Some(<<"d", "e", "m", "o", "3">>),
    Some(<<"w", "w", "w", ".", "d", "e", "m", "o", "3", ".", "i", "o">>),
    Some(<<"l", "o", "c", "a", "l", "h", "o", "s", "t", ":", "3", "0", "0", "0">>) }

\* text.split('.')[0]: the text before the first '.'.
RECURSIVE FirstPart(_)
FirstPart(text) ==
    IF text = <<>> \/ Head(text) = "." THEN <<>>
    ELSE <<Head(text)>> \o FirstPart(Tail(text))

\* host?.split('.')[0] || 'default': a missing host and an empty first part
\* both fall to 'default'.
subdomainOf(h) ==
    IF h = Null \/ FirstPart(h[1]) = <<>> THEN defaultSubdomain ELSE FirstPart(h[1])

configUrlPrefix ==
    <<"h", "t", "t", "p", ":", "/", "/", "l", "o", "c", "a", "l", "h", "o",
      "s", "t", ":", "3", "0", "0", "4", "/", "c", "o", "n", "f", "i", "g",
      "?", "s", "u", "b", "d", "o", "m", "a", "i", "n", "=">>

\* `http://localhost:3004/config?subdomain=${subdomain}`.
configUrl(sub) == configUrlPrefix \o sub

\* The text after the first occurrence of a character.
RECURSIVE After(_, _)
After(text, char) ==
    IF text = <<>> THEN <<>>
    ELSE IF Head(text) = char THEN Tail(text)
    ELSE After(Tail(text), char)

\* The text before the first occurrence of a character.
RECURSIVE Before(_, _)
Before(text, char) ==
    IF text = <<>> \/ Head(text) = char THEN <<>>
    ELSE <<Head(text)>> \o Before(Tail(text), char)

\* req.query.subdomain of a request for the url.
querySubdomain(url) == Before(After(After(url, "?"), "="), "&")

\* The GET /config handler: the JSON it answers with.
configHandler(sub) ==
    [title |-> <<"H", "e", "l", "l", "o", " ">> \o sub \o <<" ", "W", "o", "r", "l", "d", "!">>,
     proEnabled |-> sub = demo3]

\* obj[field] in JavaScript: undefined (Null) when the object has no such field.
JsGet(obj, field) == IF field \in DOMAIN obj THEN Some(obj[field]) ELSE Null

\* Whether a looked-up boolean property is truthy.
Truthy(x) == x # Null /\ x[1] = TRUE

\* The About page's paragraph: config.pro ? 'PRO' : 'NOT PRO'.
About(config) == IF Truthy(JsGet(config, "pro")) THEN "PRO" ELSE "NOT PRO"

\* A request for the About page with host header h: getConfig, answered by the
\* data cache or by the config service, then the render.
AboutRequest(h) ==
    LET sub == subdomainOf(h)
        url == configUrl(sub)
        hit == \E e \in cache : e.url = url
        body == IF hit THEN (CHOOSE e \in cache : e.url = url).body
                ELSE configHandler(querySubdomain(url))
    IN  /\ hit \/ counter < MaxFetches
        /\ host' = h
        /\ subdomain' = sub
        /\ counter' = IF hit THEN counter ELSE counter + 1
        /\ cache' = IF hit THEN cache ELSE cache \cup {[url |-> url, body |-> body]}
        /\ page' = Some(About(body))

\* A cached response reaches its revalidate age (3600 s) and is dropped.
Revalidate(url) ==
    /\ \E e \in cache : e.url = url
    /\ cache' = {e \in cache : e.url # url}
    /\ UNCHANGED <<host, subdomain, page, counter>>

\* ------------------------------------------------------- TodoList (LWC)

\* A todo item: {id, description, priority}; the description plays no part.
Todo(id, priority) == [id |-> id, priority |-> priority]

TodoPool == {Todo(1, TRUE), Todo(2, FALSE), Todo(3, TRUE), Todo(4, FALSE)}

\* The lists a parent can assign to the todos property.
TodoLists == UNION {[1..n -> TodoPool] : n \in 0..MaxTodos}

IsPriority(todo) == todo.priority = TRUE

\* filterTodos that never filters.
filterTodosKeepsAll(filter, list) == list

\* TodoList.filterTodos(): the new value of this.filteredTodos.
filterTodos(filter, list) ==
    IF filter THEN SelectSeq(list, IsPriority) ELSE list

\* The setter of the public property todos.
SetTodos(value) ==
    /\ todos' = value
    /\ filteredTodos' = filterTodos(priorityFilter, value)
    /\ UNCHANGED <<priorityFilter, checked>>

\* TodoList.handleCheckboxChange(event), with event.target.checked = isChecked.
HandleCheckboxChange(isChecked) ==
    /\ checked' = isChecked
    /\ priorityFilter' = isChecked
    /\ filteredTodos' = filterTodos(isChecked, todos)
    /\ UNCHANGED todos

\* ---------------------------------------------------------- specifications

\* One stub of TodoService, the calls of the TodoService scenario.
Next ==
    \/ SetMock /\ UNCHANGED <<controllerVars, usersVars, lwcVars, restVars>>
    \/ \E rv \in Values, v \in Values :
           MockReturnValue(rv, v) /\ UNCHANGED <<controllerVars, usersVars, lwcVars, restVars>>
    \/ \E c \in TodoCalls :
           HandleMethodCall(mockTodoService, c.name, c.args) /\ UNCHANGED <<controllerVars, usersVars, lwcVars, restVars>>

Spec == Init /\ [][Next]_vars

\* One stub, the calls that probe the serializer, one return value.
NextSig ==
    \/ SetMock /\ UNCHANGED <<controllerVars, usersVars, lwcVars, restVars>>
    \/ \E rv \in {NULL}, v \in {V1} :
           MockReturnValue(rv, v) /\ UNCHANGED <<controllerVars, usersVars, lwcVars, restVars>>
    \/ \E c \in SignatureCalls :
           HandleMethodCall(mockTodoService, c.name, c.args) /\ UNCHANGED <<controllerVars, usersVars, lwcVars, restVars>>

SpecSig == Init /\ [][NextSig]_vars

\* Two stubs created on the one provider, as the test class does.
NextIso ==
    \/ SetMock /\ UNCHANGED <<controllerVars, usersVars, lwcVars, restVars>>
    \/ \E rv \in {NULL}, v \in {V1, V2} :
           MockReturnValue(rv, v) /\ UNCHANGED <<controllerVars, usersVars, lwcVars, restVars>>
    \/ \E s \in {mockTodoService, otherTodoService}, c \in {GetTodos, AddTodoMilk} :
           HandleMethodCall(s, c.name, c.args) /\ UNCHANGED <<controllerVars, usersVars, lwcVars, restVars>>

SpecIso == Init /\ [][NextIso]_vars

\* The controller test: one provider, a stub Injector and a stub TodoService.
NextFlow ==
    \/ SetMock /\ UNCHANGED <<controllerVars, usersVars, lwcVars, restVars>>
    \/ \E rv \in {NULL}, v \in {V1, mockTodoService} :
           MockReturnValue(rv, v) /\ UNCHANGED <<controllerVars, usersVars, lwcVars, restVars>>
    \/ \E c \in {[stub |-> mockInjectorStub, call |-> Instantiate],
                 [stub |-> mockTodoService, call |-> GetTodos]} :
           HandleMethodCall(c.stub, c.call.name, c.call.args) /\ UNCHANGED <<controllerVars, usersVars, lwcVars, restVars>>
    \/ AssignMockInjector /\ UNCHANGED <<usersVars, lwcVars, restVars>>
    \/ ControllerGetTodos /\ UNCHANGED <<usersVars, lwcVars, restVars>>

SpecFlow == Init /\ [][NextFlow]_vars

\* Injector and TodoController used with and without a mock injector: direct
\* getInjector() calls, both controller methods, and mockInjector set and
\* cleared at any time.
NextInj ==
    \/ SetMock /\ UNCHANGED <<controllerVars, usersVars, lwcVars, restVars>>
    \/ \E rv \in {NULL}, v \in {mockTodoService} :
           MockReturnValue(rv, v) /\ UNCHANGED <<controllerVars, usersVars, lwcVars, restVars>>
    \/ \E c \in {[stub |-> mockInjectorStub, call |-> Instantiate]} :
           HandleMethodCall(c.stub, c.call.name, c.call.args) /\ UNCHANGED <<controllerVars, usersVars, lwcVars, restVars>>
    \/ AssignMockInjector /\ UNCHANGED <<usersVars, lwcVars, restVars>>
    \/ ClearMockInjector /\ UNCHANGED <<usersVars, lwcVars, restVars>>
    \/ GetInjector /\ UNCHANGED <<usersVars, lwcVars, restVars>>
    \/ ControllerGetTodos /\ UNCHANGED <<usersVars, lwcVars, restVars>>
    \/ ControllerAddTodo(milk) /\ UNCHANGED <<usersVars, lwcVars, restVars>>

SpecInj == Init /\ [][NextInj]_vars

\* The users page: submissions of the form and completions of addUser.
NextUsers ==
    \/ \E p \in People :
           HandleAddUser(p.name, p.email)
               /\ UNCHANGED <<providerVars, controllerVars, lwcVars, restVars>>
    \/ \E i \in 1..MaxAdds, ok \in BOOLEAN, hold \in BOOLEAN :
           AddUser(i, ok, hold) /\ UNCHANGED <<providerVars, controllerVars, lwcVars, restVars>>

\* The page starts on either of the initial users arrays.
InitAnyData ==
    /\ InitProvider
    /\ InitController
    /\ InitLwc
    /\ InitSer(NoCall, NoCall)
    /\ InitConfig
    /\ InitTodoList
    /\ \E data \in InitialData : InitUsers(data)

SpecUsers == InitAnyData /\ [][NextUsers]_vars

\* The parent component with its child: clicks, events and label assignments.
NextLwc ==
    \/ Click /\ UNCHANGED <<providerVars, controllerVars, usersVars, restVars>>
    \/ \E type \in EventTypes, detail \in Details :
           DispatchEvent(type, detail)
               /\ UNCHANGED <<providerVars, controllerVars, usersVars, restVars>>
    \/ \E value \in {ChildLabel, LABEL} :
           SetLabel(value) /\ UNCHANGED <<providerVars, controllerVars, usersVars, restVars>>

SpecLwc == Init /\ [][NextLwc]_vars

\* Requests for the About page under every host, and cache expiry.
NextConfig ==
    \/ \E h \in Hosts :
           AboutRequest(h)
               /\ UNCHANGED <<providerVars, controllerVars, usersVars, lwcVars,
                              serVars, todoListVars>>
    \/ \E h \in Hosts :
           Revalidate(configUrl(subdomainOf(h)))
               /\ UNCHANGED <<providerVars, controllerVars, usersVars, lwcVars,
                              serVars, todoListVars>>

SpecConfig == Init /\ [][NextConfig]_vars

\* TodoList: assignments to todos and changes of the checkbox.
NextTodoList ==
    \/ \E value \in TodoLists :
           SetTodos(value)
               /\ UNCHANGED <<providerVars, controllerVars, usersVars, lwcVars,
                              serVars, configVars>>
    \/ \E isChecked \in BOOLEAN :
           HandleCheckboxChange(isChecked)
               /\ UNCHANGED <<providerVars, controllerVars, usersVars, lwcVars,
                              serVars, configVars>>

SpecTodoList == Init /\ [][NextTodoList]_vars

\* Any two calls of the pool, each serialized once.
InitAnyCalls ==
    /\ InitProvider
    /\ InitController
    /\ InitUsers(<<>>)
    /\ InitLwc
    /\ InitConfig
    /\ InitTodoList
    /\ \E l \in InjectivityCalls, r \in InjectivityCalls : InitSer(l, r)

NextSer ==
    \/ SerializeLeft
           /\ UNCHANGED <<providerVars, controllerVars, usersVars, lwcVars,
                          configVars, todoListVars>>
    \/ SerializeRight
           /\ UNCHANGED <<providerVars, controllerVars, usersVars, lwcVars,
                          configVars, todoListVars>>

SpecSer == InitAnyCalls /\ [][NextSer]_vars

\* ------------------------------------------------------- claim vocabulary

\* The most recent operation was an intercepted call made while the provider
\* was Idle (the flag, which a call never changes, reads false).
IdleCall == last.op = "call" /\ isSettingMockValue = Some(FALSE)

\* Some mockReturnValue has stored a value for call c (through any stub).
IsConfigured(c) == \E e \in configured : e.call = c

\* What the registry holds for call c: whether its signature is a key, and
\* the value a lookup gives.
ResolutionIn(map, c) ==
    [found |-> Some(sig(c)) \in MapKeys(map), value |-> MapGet(map, Some(sig(c)))]

Resolution(c) == ResolutionIn(mockReturnValues, c)

\* ------------------------------------------------------------------ claims

\* C1: round trip. After setMock(); intercepted call m(a); mockReturnValue(_, v),
\* a later intercepted call m(a) made while the provider is Idle (and before the
\* next mockReturnValue) returns exactly v.
C1_RoundTrip ==
    (IdleCall /\ lastCommit.call # NoCall /\ last.call = lastCommit.call)
        => last.out = Return(lastCommit.val)

C1_Witness ==
    /\ IdleCall
    /\ last.call = AddTodoMilk
    /\ lastCommit.call = AddTodoMilk
    /\ lastCommit.val = V1
    /\ last.out = Return(V1)

\* C2: unconfigured call. An intercepted call m(a) whose (m, a) was never
\* configured returns the absence value (null) and never throws, in every
\* reachable state, a freshly constructed provider included.
C2_UnconfiguredCallReturnsAbsence ==
    (last.op = "call" /\ ~IsConfigured(last.call)) => last.out = Return(NULL)

\* C3: misuse detection. mockReturnValue called with an empty pending slot
\* (Idle, or Recording with no intercepted call) raises CommitWithoutRecording
\* and leaves the registry unchanged.
C3_MisuseRaises ==
    [][(last'.op = "mockReturnValue" /\ serializedMethodCall = Null)
          => /\ last'.out = Throw("CommitWithoutRecording")
             /\ mockReturnValues' = mockReturnValues]_vars

\* C4: last call before mockReturnValue wins. When several calls are intercepted
\* between setMock() and mockReturnValue(_, v), the commit stores v under the
\* signature of the most recent call only: every other signature, those of the
\* earlier calls of the session included, keeps the resolution it had.
C4_LastCallWins ==
    [][(last'.op = "mockReturnValue" /\ last'.prev # NoCall)
          => /\ ResolutionIn(mockReturnValues', pendingCall.call)
                    = [found |-> TRUE, value |-> lastCommit'.val]
             /\ \A c \in TodoCalls \cup {pendingCall.prev} :
                    sig(c) # sig(pendingCall.call)
                        => ResolutionIn(mockReturnValues', c) = Resolution(c)]_vars

C4_Witness ==
    /\ last.op = "mockReturnValue"
    /\ last.prev = GetTodos
    /\ last.call = AddTodoMilk
    /\ lastCommit.val = V1
    /\ Resolution(AddTodoMilk) = [found |-> TRUE, value |-> V1]
    /\ Resolution(GetTodos) = [found |-> FALSE, value |-> NULL]

\* C5: last write wins. Once (m, a) configured to v1 is configured again to v2,
\* the registry holds exactly one entry for that signature and an Idle call
\* m(a) returns v2.
C5_LastWriteWins ==
    (lastCommit.call # NoCall /\ lastCommit.was # "absent")
        => /\ Cardinality({e \in mockReturnValues :
                              e.key = Some(sig(lastCommit.call))}) = 1
           /\ (IdleCall /\ sig(last.call) = sig(lastCommit.call))
                  => last.out = Return(lastCommit.val)

C5_Witness ==
    /\ lastCommit.call = GetTodos
    /\ lastCommit.was = V1
    /\ lastCommit.val = V2
    /\ IdleCall
    /\ last.call = GetTodos
    /\ last.out = Return(V2)

\* The call c with its two arguments swapped.
Swap(c) == Call(c.name, <<c.args[2], c.args[1]>>)

\* The text has no ',' in it.
DelimiterFree(text) == \A i \in 1..Len(text) : text[i] # ","

\* An Idle call m(y, x) that was not configured itself, after m(x, y) was.
SwappedCallCase ==
    /\ IdleCall
    /\ Len(last.call.args) = 2
    /\ last.call.args[1] # last.call.args[2]
    /\ IsConfigured(Swap(last.call))
    /\ ~IsConfigured(last.call)

\* C6, as claimed: for distinct argument values x and y, configuring m(x, y)
\* does not affect a later Idle call m(y, x), which resolves as unconfigured.
C6_ArgumentOrderAnyValues ==
    SwappedCallCase
        => /\ last.out = Return(NULL)
           /\ ~Resolution(last.call).found

\* C6, amended: the same for argument values x and y whose text forms are
\* distinct and contain no ','.
C6_ArgumentOrderSensitive ==
    (/\ SwappedCallCase
     /\ valueOf(last.call.args[1]) # valueOf(last.call.args[2])
     /\ DelimiterFree(valueOf(last.call.args[1]))
     /\ DelimiterFree(valueOf(last.call.args[2])))
        => /\ last.out = Return(NULL)
           /\ ~Resolution(last.call).found

C6_Witness ==
    /\ IdleCall
    /\ last.call = Call(mName, <<IntArg(2), IntArg(1)>>)
    /\ IsConfigured(Call(mName, <<IntArg(1), IntArg(2)>>))
    /\ ~IsConfigured(last.call)
    /\ Resolution(Call(mName, <<IntArg(1), IntArg(2)>>)) = [found |-> TRUE, value |-> V1]
    /\ last.out = Return(NULL)

\* C7: recording isolation. An Idle call through a stub that never configured
\* the call's signature resolves as unconfigured, whatever was configured
\* through another stub, two stubs created on the same MockProvider included.
C7_RecordingIsolation ==
    (/\ IdleCall
     /\ ~\E e \in configured : e.stub = last.stub /\ sig(e.call) = sig(last.call))
        => last.out = Return(NULL)

\* C8: an Idle call whose signature was configured (to null, in particular) is
\* observably different from an Idle call whose signature was never configured:
\* its outcome is not the one the call has on a registry without that key.
C8_ConfiguredNullObservable ==
    (IdleCall /\ Resolution(last.call).found)
        => last.out # Return(MapGet({}, Some(sig(last.call))))

\* C9: the zero-argument call m() and the one-argument call m(x) whose argument
\* serializes to the empty string are distinguishable: configuring one of the
\* two never changes what the other resolves to.
C9_ZeroArgDistinguishable ==
    [][\A c, d \in {ZeroArgCall, EmptyArgCall} :
          (c # d /\ last'.op = "mockReturnValue" /\ pendingCall.call = c)
              => ResolutionIn(mockReturnValues', d) = Resolution(d)]_vars

\* C10: no leak to other signatures. A mockReturnValue that stores under
\* signature s leaves the resolution of every other signature unchanged, and an
\* Idle call that was never configured (addTodo("eggs") after getTodos() and
\* addTodo("milk") were) returns the absence value.
C10_NoLeak ==
    /\ []((IdleCall /\ ~IsConfigured(last.call)) => last.out = Return(NULL))
    /\ [][last'.op = "mockReturnValue"
             => \A c \in TodoCalls :
                    Some(sig(c)) # serializedMethodCall
                        => ResolutionIn(mockReturnValues', c) = Resolution(c)]_vars

C10_Witness ==
    /\ IdleCall
    /\ last.call = AddTodoEggs
    /\ last.out = Return(NULL)
    /\ lastCommit.call = AddTodoMilk
    /\ Resolution(GetTodos) = [found |-> TRUE, value |-> V1]
    /\ Resolution(AddTodoMilk) = [found |-> TRUE, value |-> V2]

\* The test's three configuration steps are done and the provider is Idle.
FlowConfigured ==
    /\ isSettingMockValue = Some(FALSE)
    /\ mockInjector = Some(mockInjectorStub)
    /\ Resolution(Instantiate) = [found |-> TRUE, value |-> mockTodoService]
    /\ Resolution(GetTodos) = [found |-> TRUE, value |-> V1]

\* C11: end-to-end test flow. With instantiate('TodoService') configured to
\* return the stub service, Injector.mockInjector set to the stub injector and
\* getTodos() configured to return mockTodoList, the first call to
\* TodoController.getTodos() returns mockTodoList, and no real TodoService or
\* real Injector is created.
C11_EndToEndFlow ==
    [][(calls = 0 /\ calls' = 1 /\ FlowConfigured)
          => /\ controllerOut' = Return(V1)
             /\ self' = Some([todoService |-> mockTodoService])
             /\ injector' = Null
             /\ created' = {}]_vars

C11_Witness ==
    /\ calls = 1
    /\ FlowConfigured
    /\ controllerOut = Return(V1)
    /\ self = Some([todoService |-> mockTodoService])
    /\ created = {}

\* No addUser action is still running.
Quiescent == \A i \in 1..Len(optimistic) : ~IsPending(optimistic[i])

\* How many rows of a list show the person p.
Shows(list, p) ==
    Cardinality({k \in 1..Len(list) : list[k].name = p.name /\ list[k].email = p.email})

\* C12: optimistic user list. Each added user is shown at once; a step takes
\* from the displayed list only users whose addUser failed; and once every
\* pending action has completed the displayed list equals the server's list
\* and shows no failed user.
C12_OptimisticList ==
    /\ [](Quiescent => /\ optimisticUsers = dataUsers
                       /\ \A k \in 1..Len(optimisticUsers) :
                              optimisticUsers[k].id \notin failed)
    /\ [][clock' = clock + 1
             => /\ Len(optimisticUsers') = Len(optimisticUsers) + 1
                /\ optimisticUsers'[Len(optimisticUsers')].id = DateNow(clock)]_vars
    /\ [][\A p \in People :
             Shows(optimisticUsers, p) - Shows(optimisticUsers', p)
                 <= Cardinality({k \in 1..Len(optimistic) :
                        /\ optimistic[k].user.id \in failed'
                        /\ optimistic[k].user.name = p.name
                        /\ optimistic[k].user.email = p.email
                        /\ \A j \in 1..Len(optimistic') :
                               optimistic'[j].user.id # optimistic[k].user.id})]_vars

C12_Witness ==
    /\ overlap
    /\ clock = MaxAdds
    /\ Quiescent
    /\ failed # {}
    /\ Cardinality(failed) < clock
    /\ optimisticUsers = dataUsers

\* C13: parent component. After any sequence of showgreeting events received
\* from the child the greeting is the detail of the most recent one, it is
\* unset before the first, and childLabel stays Parent.ChildLabel.
C13_ParentGreeting ==
    /\ greeting = IF received = <<>> THEN Null ELSE Some(received[Len(received)])
    /\ childLabel = ChildLabel

C13_Witness ==
    /\ Len(received) = 2
    /\ received[1] # received[2]
    /\ greeting = Some(received[2])
    /\ childLabel = ChildLabel

\* C14: child component. Every click on the button dispatches exactly one
\* showgreeting event whose detail is 'Hello World!', and leaves the child's
\* label as it was.
C14_ChildClick ==
    [][clicks' = clicks + 1
          => /\ dispatched' = Append(dispatched, [type |-> "showgreeting",
                                                  detail |-> "Hello World!"])
             /\ label' = label]_vars

C14_Witness ==
    /\ clicks = 2
    /\ Len(dispatched) = 2
    /\ label = LABEL

\* C15: initial state. A freshly constructed MockProvider is Idle (its recording
\* flag reads as not-recording), with an empty pending slot and an empty registry.
C15_InitialStateIdle ==
    last.op = "none"
        => /\ isSettingMockValue = Some(FALSE)
           /\ serializedMethodCall = Null
           /\ mockReturnValues = {}

\* C16: pending-slot invariant. The pending signature slot is non-empty if and
\* only if the provider is Recording and at least one call has been intercepted
\* since it most recently entered Recording via setMock().
C16_PendingSlotInvariant ==
    (serializedMethodCall # Null) <=> (isSettingMockValue = Some(TRUE) /\ intercepted)

\* C17: re-entering Recording drops the stale signature. A mockReturnValue that
\* follows a setMock() with no intercepted call in between does not store its
\* value under the signature that was pending before that setMock().
C17_StaleSignatureDropped ==
    [][(last'.op = "mockReturnValue" /\ ~intercepted /\ pendingCall.call # NoCall)
          => ResolutionIn(mockReturnValues', pendingCall.call)
                 = Resolution(pendingCall.call)]_vars

\* C18: commit transition. From Recording with pending signature s,
\* mockReturnValue(_, v) sets registry[s] = v, changes no other entry, clears the
\* pending slot and leaves the provider Idle; the next intercepted call is
\* resolved against the registry and not recorded.
C18_CommitTransition ==
    /\ [][(/\ last'.op = "mockReturnValue"
           /\ isSettingMockValue = Some(TRUE)
           /\ serializedMethodCall # Null)
             => /\ mockReturnValues' =
                       {e \in mockReturnValues : e.key # serializedMethodCall}
                           \cup {[key |-> serializedMethodCall, value |-> lastCommit'.val]}
                /\ serializedMethodCall' = Null
                /\ isSettingMockValue' = Some(FALSE)]_vars
    /\ [][(last.op = "mockReturnValue" /\ last'.op = "call")
             => /\ last'.out = Return(MapGet(mockReturnValues, Some(sig(last'.call))))
                /\ serializedMethodCall' = Null]_vars

C18_Witness ==
    /\ last.op = "mockReturnValue"
    /\ last.call = GetTodos
    /\ lastCommit.val = V1
    /\ isSettingMockValue = Some(FALSE)
    /\ serializedMethodCall = Null
    /\ Resolution(GetTodos) = [found |-> TRUE, value |-> V1]
    /\ Resolution(AddTodoMilk) = [found |-> TRUE, value |-> V2]

\* C19: the placeholder returned by a call intercepted during Recording cannot
\* be mistaken for a real return: it differs from the absence value of an
\* unconfigured Idle call and from every value an Idle call can return, a
\* configured null included.
C19_PlaceholderDistinct ==
    (last.op = "call" /\ isSettingMockValue = Some(TRUE))
        => /\ last.out # Return(MapGet({}, Some(sig(last.call))))
           /\ last.out \notin {Return(v) : v \in Values}

\* C20: a call intercepted while the provider is Idle mutates nothing: the
\* recording flag, the pending slot and the registry are unchanged, whether or
\* not the signature is configured.
C20_IdleCallMutatesNothing ==
    [][(last'.op = "call" /\ isSettingMockValue = Some(FALSE))
          => /\ isSettingMockValue' = isSettingMockValue
             /\ serializedMethodCall' = serializedMethodCall
             /\ mockReturnValues' = mockReturnValues]_vars

C20_Witness ==
    /\ IdleCall
    /\ last.call = GetTodos
    /\ last.out = Return(V1)
    /\ Resolution(AddTodoEggs) = [found |-> FALSE, value |-> NULL]
    /\ serializedMethodCall = Null

\* C21: totality. In every reachable state setMock(), mockReturnValue(_, v) and
\* an intercepted call complete in one step with a result: the operation just
\* performed returned, and every call that could be intercepted now would return.
C21_Totality ==
    /\ last.out.kind = "return"
    /\ \A c \in TodoCalls :
           handleMethodCallOutcome(mockTodoService, c.name, c.args).kind = "return"

\* C22: mockReturnValue ignores its first parameter. Whatever first argument a
\* mockReturnValue step was taken with, every other first argument leads from
\* the same state to the same state.
C22_FirstParameterIgnored ==
    [][last'.op = "mockReturnValue"
          => \A rv \in Values : MockReturnValue(rv, lastCommit'.val)]_vars

C22_Witness ==
    /\ last.op = "mockReturnValue"
    /\ last.call = AddTodoMilk
    /\ lastCommit.val = V2
    /\ Resolution(AddTodoMilk) = [found |-> TRUE, value |-> V2]

\* C23: Injector.getInjector() returns the mock injector whenever
\* Injector.mockInjector is non-null and otherwise the real Injector, which is
\* created at most once and kept; it never returns null.
C23_GetInjector ==
    /\ newInjectors <= 1
    /\ injector # Null => injector = Some(realInjector) /\ newInjectors = 1
    /\ gotInjector # Null
           => /\ gotInjector[1].ref # NULL
              /\ gotInjector[1].ref = IF gotInjector[1].mockWas # Null
                                      THEN gotInjector[1].mockWas[1]
                                      ELSE realInjector
              /\ gotInjector[1].mockWas = Null => injector = Some(realInjector)

C23_Witness ==
    /\ newInjectors = 1
    /\ injector = Some(realInjector)
    /\ mockInjector = Some(mockInjectorStub)
    /\ gotInjector = Some([ref |-> mockInjectorStub, mockWas |-> Some(mockInjectorStub)])

\* C24: pro mode per subdomain. The About page shows 'PRO' exactly when the
\* request's subdomain is demo3 and 'NOT PRO' for every other subdomain, and a
\* request without a host header is looked up under the subdomain 'default'.
C24_ProModePerSubdomain ==
    page # Null
        => /\ page = Some(IF subdomain = demo3 THEN "PRO" ELSE "NOT PRO")
           /\ host = Null => subdomain = defaultSubdomain

\* C25: only mockReturnValue writes the registry. setMock() and an intercepted
\* call leave every registry entry as it is; a call returns only null or a
\* value taken from the registry, never a result of the wrapped type, and it
\* changes nothing but the pending slot, and that only while Recording.
C25_OnlyCommitWritesRegistry ==
    /\ [][last'.op \in {"setMock", "call"}
             => mockReturnValues' = mockReturnValues]_vars
    /\ [][last'.op = "call"
             => /\ isSettingMockValue' = isSettingMockValue
                /\ isSettingMockValue # Some(TRUE)
                       => serializedMethodCall' = serializedMethodCall
                /\ last'.out.kind = "return"
                       => last'.out.value \in
                              {NULL} \cup {e.value : e \in mockReturnValues}]_vars

C25_Witness ==
    /\ last.op = "setMock"
    /\ Resolution(GetTodos) = [found |-> TRUE, value |-> V1]
    /\ Resolution(AddTodoMilk) = [found |-> TRUE, value |-> V2]
    /\ isSettingMockValue = Some(TRUE)

\* C26: configured values persist. No step removes or changes a registry entry
\* except a mockReturnValue committed under that entry's own signature, and an
\* Idle call whose signature has an entry returns that entry's value.
C26_ConfiguredValuesPersist ==
    /\ [][\A e \in mockReturnValues :
             \/ e \in mockReturnValues'
             \/ last'.op = "mockReturnValue" /\ serializedMethodCall = e.key]_vars
    /\ [](IdleCall => \A e \in mockReturnValues :
                          e.key = Some(sig(last.call)) => last.out = Return(e.value))

C26_Witness ==
    /\ IdleCall
    /\ last.call = GetTodos
    /\ last.out = Return(V1)
    /\ lastCommit.call = AddTodoMilk
    /\ lastCommit.val = V2
    /\ Resolution(AddTodoMilk) = [found |-> TRUE, value |-> V2]

\* The method name has no '(' and every argument's text form is non-empty and
\* has no ',' in it.
InInjectivityDomain(c) ==
    /\ \A i \in 1..Len(c.name) : c.name[i] # "("
    /\ \A k \in 1..Len(c.args) :
           valueOf(c.args[k]) # <<>> /\ DelimiterFree(valueOf(c.args[k]))

\* The ordered text forms of a call's arguments.
TextForms(c) == [k \in 1..Len(c.args) |-> valueOf(c.args[k])]

\* C27: signature injectivity under delimiter-free arguments. Over method
\* names without '(' and arguments whose text forms are non-empty and have no
\* ',', two calls get the same signature if and only if they have the same
\* method name and the same ordered argument text forms.
C27_SignatureInjective ==
    (/\ leftSig # Null /\ rightSig # Null
     /\ InInjectivityDomain(left) /\ InInjectivityDomain(right))
        => ((leftSig = rightSig)
               <=> (left.name = right.name /\ TextForms(left) = TextForms(right)))

C27_Witness ==
    /\ leftSig # Null /\ rightSig # Null
    /\ InInjectivityDomain(left) /\ InInjectivityDomain(right)
    /\ left = Call(mName, <<IntArg(1)>>)
    /\ right = Call(mName, <<StrArg(<<"1">>)>>)
    /\ leftSig = rightSig

\* C28: TodoController binds its service once. The service is resolved through
\* Injector.getInjector().instantiate('TodoService') when the class is first
\* initialised; once bound it never changes, every later getTodos()/addTodo()
\* is delegated to it without resolving again, and setting or clearing
\* Injector.mockInjector afterwards changes nothing in TodoController.
C28_BindsOnce ==
    /\ [][(calls = 0 /\ calls' = 1) => gotInjector' # Null]_vars
    /\ [][self # Null => self' = self]_vars
    /\ [][(self # Null /\ calls' = calls + 1)
             => /\ gotInjector' = gotInjector
                /\ last'.call # Instantiate
                /\ controllerOut' \in {serviceCall(self[1].todoService, GetTodos),
                                       serviceCall(self[1].todoService, AddTodoMilk)}]_vars
    /\ [][mockInjector' # mockInjector
             => self' = self /\ controllerOut' = controllerOut]_vars

C28_Witness ==
    /\ calls = 2
    /\ last.op = "TodoController"
    /\ self = Some([todoService |-> realTodoService])
    /\ mockInjector = Some(mockInjectorStub)
    /\ controllerOut = Return(todoRows)

\* The todos of a list whose priority is true, in their order.
RECURSIVE PriorityOnly(_)
PriorityOnly(list) ==
    IF list = <<>> THEN <<>>
    ELSE IF Head(list).priority
         THEN <<Head(list)>> \o PriorityOnly(Tail(list))
         ELSE PriorityOnly(Tail(list))

\* C29: TodoList filter invariant. After any sequence of assignments to todos
\* and checkbox changes, filteredTodos is the todos whose priority is true when
\* priorityFilter is set and the full todos list otherwise, and priorityFilter
\* is the checked state of the most recent checkbox change, false initially.
C29_FilterInvariant ==
    /\ filteredTodos = IF priorityFilter THEN PriorityOnly(todos) ELSE todos
    /\ priorityFilter = checked

C29_Witness ==
    /\ priorityFilter
    /\ checked
    /\ Len(todos) = 3
    /\ Len(filteredTodos) = 1
    /\ filteredTodos[1] = todos[2]

====
